---- MODULE Spec2Model ----
(***************************************************************************)
(* Model of app/main.py of pmtiles-demo: the create_bundle request         *)
(* handler, the ensure_pmtiles conversion pipeline, the ogrinfo_bounds     *)
(* extent prober and the safe_name sanitizer.                              *)
(*                                                                         *)
(* Strings are sequences of one-character strings, so that strip, lower,   *)
(* suffix, regular-expression substitution and slicing are computed.       *)
(***************************************************************************)
EXTENDS Integers, Sequences, FiniteSets, TLC

\* ------------------------------------------------------------------------
\* Bounds of the model
\* ------------------------------------------------------------------------

\* safe_name inputs carry a run of up to NameMax + MaxOver repeated characters
MaxOver == 2

\* short runs of repeated characters in safe_name inputs: 0..MaxShort
MaxShort == 2

\* ------------------------------------------------------------------------
\* Characters and strings
\* ------------------------------------------------------------------------

LowerLetters ==
  <<"a","b","c","d","e","f","g","h","i","j","k","l","m",
    "n","o","p","q","r","s","t","u","v","w","x","y","z">>

UpperLetters ==
  <<"A","B","C","D","E","F","G","H","I","J","K","L","M",
    "N","O","P","Q","R","S","T","U","V","W","X","Y","Z">>

Digits == {"0","1","2","3","4","5","6","7","8","9"}

\* the characters str.strip() strips and the regular expression \s matches
Whitespace == {" ", "\t", "\n"}

\* the complement of the class [^a-zA-Z0-9._-] of safe_name
AllowedChars ==
  {LowerLetters[i] : i \in 1..26} \cup {UpperLetters[i] : i \in 1..26}
    \cup Digits \cup {".", "_", "-"}

\* s[:120]
NameMax == 120

\* the default token of safe_name and of create_bundle
Bundle == <<"b","u","n","d","l","e">>

\* file.filename or "upload"
Upload == <<"u","p","l","o","a","d">>

Min(a, b) == IF a <= b THEN a ELSE b

\* str.lower() on one character
LowerChar(c) ==
  IF \E i \in 1..26 : UpperLetters[i] = c
    THEN LowerLetters[CHOOSE i \in 1..26 : UpperLetters[i] = c]
    ELSE c

\* str.lower()
Lower(s) == [i \in 1..Len(s) |-> LowerChar(s[i])]

\* str.strip(): drop leading and trailing whitespace
Strip(s) ==
  LET keep == {i \in 1..Len(s) : s[i] \notin Whitespace}
  IN  IF keep = {} THEN <<>>
      ELSE LET lo == CHOOSE i \in keep : \A j \in keep : i <= j
               hi == CHOOSE i \in keep : \A j \in keep : j <= i
           IN  SubSeq(s, lo, hi)

\* re.sub(r"\s+", "-", s): every maximal run of whitespace becomes one "-".
\* The first character of a run is replaced, the others are dropped.
SubWhitespace(s) ==
  LET marked == [i \in 1..Len(s) |->
                   IF s[i] \notin Whitespace THEN s[i]
                   ELSE IF i > 1 /\ s[i - 1] \in Whitespace THEN "" ELSE "-"]
  IN  SelectSeq(marked, LAMBDA c : c # "")

\* re.sub(r"[^a-zA-Z0-9._-]+", "", s): delete every character outside the class
SubDisallowed(s) == SelectSeq(s, LAMBDA c : c \in AllowedChars)

\* s[:n]
Prefix(s, n) == SubSeq(s, 1, Min(n, Len(s)))

\* safe_name with the truncation dropped (a plausible slip)
SafeNameNoTruncate(s) ==
  LET t == SubDisallowed(SubWhitespace(Strip(s)))
  IN  IF t # <<>> THEN t ELSE Bundle

\* safe_name with no default for an empty result
SafeNameNoDefault(s) ==
  Prefix(SubDisallowed(SubWhitespace(Strip(s))), NameMax)

\* safe_name with the test for an empty result made before the character filter
SafeNameDefaultBeforeFilter(s) ==
  LET t == SubWhitespace(Strip(s))
  IN  IF t # <<>> THEN Prefix(SubDisallowed(t), NameMax) ELSE Bundle

\* safe_name
SafeName(s) ==
  LET t == SubDisallowed(SubWhitespace(Strip(s)))
  IN  IF t # <<>> THEN Prefix(t, NameMax) ELSE Bundle

\* ------------------------------------------------------------------------
\* Names and paths
\* ------------------------------------------------------------------------

ExtPmtiles == <<".","p","m","t","i","l","e","s">>
ExtMbtiles == <<".","m","b","t","i","l","e","s">>
ExtGeojson == <<".","g","e","o","j","s","o","n">>
ExtJson    == <<".","j","s","o","n">>
ExtZip     == <<".","z","i","p">>
ExtShp     == <<".","s","h","p">>

\* work / "converted.geojson", work / "out.mbtiles", work / "unzipped"
ConvertedGeojson == <<"c","o","n","v","e","r","t","e","d">> \o ExtGeojson
OutMbtiles       == <<"o","u","t">> \o ExtMbtiles
Unzipped         == <<"u","n","z","i","p","p","e","d">>

\* str.rfind("."): the last index of ".", 0 when there is none
RFindDot(name) ==
  LET dots == {i \in 1..Len(name) : name[i] = "."}
  IN  IF dots = {} THEN 0 ELSE CHOOSE i \in dots : \A j \in dots : j <= i

\* PurePath.suffix of a final path component: name[i:] for the last dot,
\* empty when the dot is the first or the last character
Suffix(name) ==
  LET i == RFindDot(name)
  IN  IF 1 < i /\ i < Len(name) THEN SubSeq(name, i, Len(name)) ELSE <<>>

\* A path under WORKDIR: the bundle id of the working directory and the
\* components below it.  WORKDIR / bundle_id is [id |-> id, rel |-> <<>>].
WorkPath(id) == [id |-> id, rel |-> <<>>]

\* PurePath "/": a "." component is dropped, ".." is kept as a component
Join(p, name) ==
  IF name = <<".">> THEN p ELSE [id |-> p.id, rel |-> Append(p.rel, name)]

\* PurePath.name; the working directory's own name is a uuid, which has no dot
PathName(p) == IF p.rel = <<>> THEN <<>> ELSE p.rel[Len(p.rel)]

\* the path names the working directory or its parent, not a file below it
IsDirectoryPath(p) == p.rel = <<>> \/ p.rel[Len(p.rel)] = <<".", ".">>

NoPath == [id |-> "", rel |-> <<>>]

\* fnmatch of the pattern "*.shp" against a directory entry's name
MatchesShpGlob(name) ==
  Len(name) >= Len(ExtShp)
    /\ SubSeq(name, Len(name) - Len(ExtShp) + 1, Len(name)) = ExtShp

\* ------------------------------------------------------------------------
\* The ogrinfo report: a parsed JSON tree
\* ------------------------------------------------------------------------

\* A node is a record [t, n, s, items]: t is the JSON type; n the value of a
\* number; s the text of a string; items the elements of a list, or the
\* <<key, value>> pairs of an object in document order.
JNum(n)      == [t |-> "num",  n |-> n, s |-> "", items |-> <<>>]
JStr(s)      == [t |-> "str",  n |-> 0, s |-> s,  items |-> <<>>]
JNull        == [t |-> "null", n |-> 0, s |-> "", items |-> <<>>]
JList(items) == [t |-> "list", n |-> 0, s |-> "", items |-> items]
JDict(pairs) == [t |-> "dict", n |-> 0, s |-> "", items |-> pairs]

\* Python's None as the result of find_extent
None == [t |-> "None", n |-> 0, s |-> "", items |-> <<>>]

\* obj["extent"] for a dict that has the key, None otherwise
DictGet(obj, key) ==
  LET hits == {i \in 1..Len(obj.items) : obj.items[i][1] = key}
  IN  IF hits = {} THEN None ELSE obj.items[CHOOSE i \in hits : TRUE][2]

\* list(obj.values())
DictValues(obj) == [i \in 1..Len(obj.items) |-> obj.items[i][2]]

\* the test of line 107 without the length
HasOwnExtentAnyLength(obj) == DictGet(obj, "extent").t = "list"

\* "extent" in obj and isinstance(obj["extent"], (list, tuple))
\*   and len(obj["extent"]) == 4
HasOwnExtent(obj) ==
  LET e == DictGet(obj, "extent")
  IN  e.t = "list" /\ Len(e.items) = 4

\* `if r:` -- None, an empty list or dict, 0, "" are falsy
Truthy(r) ==
  CASE r.t = "None" -> FALSE
    [] r.t = "null" -> FALSE
    [] r.t = "num"  -> r.n # 0
    [] r.t = "str"  -> r.s # ""
    [] OTHER        -> r.items # <<>>

\* find_extent, and its two loops `for v in ...: r = find_extent(v); if r: return r`
RECURSIVE find_extent(_), FirstExtent(_)
find_extent(obj) ==
  IF obj.t = "dict"
    THEN IF HasOwnExtent(obj) THEN DictGet(obj, "extent")
         ELSE FirstExtent(DictValues(obj))
    ELSE IF obj.t = "list" THEN FirstExtent(obj.items)
    ELSE None

FirstExtent(vs) ==
  IF vs = <<>> THEN None
  ELSE LET r == find_extent(Head(vs))
       IN  IF Truthy(r) THEN r ELSE FirstExtent(Tail(vs))

\* float(x) succeeds on a number and on a string that spells one
FloatOk(x) == x.t = "num" \/ (x.t = "str" /\ x.s \in {"1", "2", "3", "4"})

\* float(x) where it succeeds
Float(x) ==
  IF x.t = "num" THEN x.n
  ELSE CASE x.s = "1" -> 1 [] x.s = "2" -> 2 [] x.s = "3" -> 3 [] OTHER -> 4

\* bounds absent (Python None for a list of floats)
NoBounds == <<>>

\* ------------------------------------------------------------------------
\* Inputs of a request and answers of the environment
\* ------------------------------------------------------------------------

\* the two requests that may be in flight
Runs == {1, 2}

\* values uuid.uuid4() may return
Ids == {"u1", "u2"}

\* file.filename of the upload
Filenames ==
  { <<"a",".","p","m","t","i","l","e","s">>,
    <<"a",".","P","M","T","i","l","e","s">>,
    <<".","p","m","t","i","l","e","s">>,
    <<"a",".","m","b","t","i","l","e","s">>,
    <<"a",".","M","B","T","I","L","E","S">>,
    <<"a",".","g","e","o","j","s","o","n">>,
    <<"a",".","J","S","O","N">>,
    <<"a",".","z","i","p">>,
    <<"a",".","Z","i","p">>,
    <<"a",".","s","h","p">>,
    <<"d","a","t","a">>,
    <<"a"," ","b",".","g","e","o","j","s","o","n"," ">>,
    <<".",".">>,
    <<>> }

\* the form field `name`
Names == { <<"n">>, <<" ">>, <<"a">> }

\* An entry below the unzipped directory after extraction: its name and
\* whether it is a regular file (otherwise a directory).
File(name) == [name |-> name, isFile |-> TRUE]
Dir(name)  == [name |-> name, isFile |-> FALSE]

\* what an archive may extract to
ZipContents ==
  { {},
    {Dir(<<"s","u","b">>)},
    {Dir(<<"a",".","s","h","p">>)},
    {Dir(<<"a",".","s","h","p">>), File(<<"e",".","t","x","t">>)},
    {File(<<"a",".","s","h","p">>)},
    {File(<<"a",".","s","h","p">>), File(<<"a",".","d","b","f">>)},
    {File(<<"a",".","s","h","p">>), File(<<"b",".","s","h","p">>)},
    {File(<<"A",".","S","H","P">>)},
    {File(<<"b",".","g","e","o","j","s","o","n">>)},
    {File(<<"c",".","m","b","t","i","l","e","s">>)},
    {File(<<"d",".","p","m","t","i","l","e","s">>)},
    {File(<<"e",".","t","x","t">>), Dir(<<"s","u","b">>)} }

Extent1234 == JList(<<JNum(1), JNum(2), JNum(3), JNum(4)>>)
Extent4321 == JList(<<JNum(4), JNum(3), JNum(2), JNum(1)>>)

\* parsed reports ogrinfo may print
Reports ==
  { JDict(<<>>),
    JNum(5),
    JDict(<< <<"layers", JList(<< JDict(<< <<"name", JStr("x")>>,
        <<"geometryFields", JList(<< JDict(<< <<"extent", Extent1234>> >>) >>)>> >>) >>)>> >>),
    JDict(<< <<"extent", JList(<<JNum(1), JNum(2), JNum(3)>>)>> >>),
    JDict(<< <<"extent", JList(<<JNum(1), JNum(2), JNum(3)>>)>>,
             <<"layers", JList(<< JDict(<< <<"extent", Extent1234>> >>) >>)>> >>),
    JDict(<< <<"extent", JList(<<JStr("1"), JStr("2"), JStr("3"), JStr("4")>>)>> >>),
    JDict(<< <<"extent", JList(<<JNum(1), JStr("x"), JNum(3), JNum(4)>>)>> >>),
    JDict(<< <<"extent", JList(<<JNum(1), JNull, JNum(3), JNum(4)>>)>> >>),
    JDict(<< <<"extent", Extent4321>>, <<"a", JDict(<< <<"extent", Extent1234>> >>)>> >>),
    JDict(<< <<"a", JDict(<< <<"extent", Extent1234>> >>)>>, <<"extent", Extent4321>> >>),
    JList(<< JNull, JDict(<< <<"extent", Extent1234>> >>) >>),
    JDict(<< <<"extent", JStr("abcd")>> >>),
    JDict(<< <<"extent", JDict(<< <<"extent", Extent4321>> >>)>> >>),
    JDict(<< <<"extent", JList(<<JNum(0), JNum(0), JNum(0), JNum(0)>>)>> >>) }

\* subprocess.run results: exit status and captured streams
ToolStdout == {"", "out"}
ToolStderr == {"err1", "err2"}

ToolOk == [rc |-> 0, stdout |-> "", stderr |-> ""]

ToolFailures == [rc : {1}, stdout : ToolStdout, stderr : ToolStderr]

ToolResults == {ToolOk} \cup ToolFailures

\* A command line: the tool, the paths among its arguments and, for
\* tippecanoe, the layer name.
Cmd(tool, paths, layer) == [tool |-> tool, paths |-> paths, layer |-> layer]

NoCmd == Cmd("", <<>>, <<>>)

\* ------------------------------------------------------------------------
\* Exceptions, responses and storage keys
\* ------------------------------------------------------------------------

Detail(text, cmd, stdout, stderr) ==
  [text |-> text, cmd |-> cmd, stdout |-> stdout, stderr |-> stderr]

NoDetail == Detail("", NoCmd, "", "")

Key(prefix, id, name) == [prefix |-> prefix, id |-> id, name |-> name]

NoKey == Key("", "", <<>>)

NoBody ==
  [id |-> "", name |-> <<>>, bounds |-> NoBounds,
   source_key |-> NoKey, pmtiles_key |-> NoKey]

\* what is in flight out of create_bundle: nothing yet, a returned response,
\* or a raised exception.  status is the HTTP status the caller sees: that of
\* an HTTPException, 500 for any other exception, 200 for the JSONResponse.
NoPending ==
  [kind |-> "none", type |-> "", status |-> 0, detail |-> NoDetail, body |-> NoBody]

Raised(type, status, detail) ==
  [kind |-> "raise", type |-> type, status |-> status, detail |-> detail,
   body |-> NoBody]

Returned(body) ==
  [kind |-> "return", type |-> "JSONResponse", status |-> 200,
   detail |-> NoDetail, body |-> body]

\* run() without the check of the exit status
RunNeverRaises(res) == FALSE

\* run(), line 78: if p.returncode != 0
RunRaises(res) == res.rc # 0

\* run(): the RuntimeError of line 79 with the message dropping STDERR
RunErrorNoStderr(cmd, res) ==
  Raised("RuntimeError", 500, Detail("Command failed", cmd, res.stdout, ""))

\* run(): the RuntimeError raised on a non-zero exit status; the message
\* holds the command and both captured streams
RunError(cmd, res) ==
  Raised("RuntimeError", 500, Detail("Command failed", cmd, res.stdout, res.stderr))

\* raise HTTPException(400, "Zip was empty or contained no files.")
EmptyZipError ==
  Raised("HTTPException", 400,
         Detail("Zip was empty or contained no files.", NoCmd, "", ""))

\* an exception of the storage client, sqlite3 or the filesystem
OtherError(type) == Raised(type, 500, NoDetail)

\* ------------------------------------------------------------------------
\* ogrinfo_bounds
\* ------------------------------------------------------------------------

\* standard output of a successful ogrinfo: text json.loads rejects, or the
\* tree it parses to
OgrinfoOutputs ==
  {[parses |-> FALSE, json |-> None]} \cup {[parses |-> TRUE, json |-> j] : j \in Reports}

NoOutput == [parses |-> FALSE, json |-> None]

Value(v) == [exc |-> "", value |-> v]
Throw(e) == [exc |-> e, value |-> NoBounds]

\* The body of the try block, lines 103-122, and the return of line 125:
\* the exception it raises, or the value it returns.
ProbeTry(res, out) ==
  IF RunRaises(res) THEN Throw("RuntimeError")
  ELSE IF ~out.parses THEN Throw("JSONDecodeError")
  ELSE LET ext == find_extent(out.json)
       IN  IF Truthy(ext) /\ Len(ext.items) = 4
             THEN IF \A i \in 1..4 : FloatOk(ext.items[i])
                    THEN Value([i \in 1..4 |-> Float(ext.items[i])])
                    ELSE Throw("ValueError")
             ELSE Value(NoBounds)

\* ogrinfo_bounds catching only the parse and conversion errors
ogrinfo_boundsNarrowExcept(res, out) ==
  LET t == ProbeTry(res, out)
  IN  IF t.exc \in {"JSONDecodeError", "ValueError"} THEN Value(NoBounds) ELSE t

\* ogrinfo_bounds: `except Exception: return None` catches all three
ogrinfo_bounds(res, out) ==
  LET t == ProbeTry(res, out)
  IN  IF t.exc \in {"RuntimeError", "JSONDecodeError", "ValueError"}
        THEN Value(NoBounds) ELSE t

\* ------------------------------------------------------------------------
\* State
\* ------------------------------------------------------------------------

VARIABLES
  pc,                 \* per request: the position in create_bundle / ensure_pmtiles
  bundle_id,          \* per request: str(uuid.uuid4())
  bundle_name,        \* per request: name.strip() or "bundle"
  original_filename,  \* per request: safe_name(file.filename or "upload")
  upload_path,        \* per request: work / original_filename
  src_for_ogr,        \* per request: the dataset ogrinfo and ogr2ogr read
  geojson,            \* per request: the input of tippecanoe
  mb,                 \* per request: the input of pmtiles convert
  pmtiles_path,       \* per request: the path ensure_pmtiles returned
  bounds,             \* per request: the bounds ensure_pmtiles returned
  pending,            \* per request: the response or exception in flight
  outcome,            \* per request: what the caller received
  log,                \* per request: the subprocess invocations, in order
  probe,              \* per request: what ogrinfo exited with and printed
  rmtrees,            \* per request: the number of shutil.rmtree(work) calls
  rmtree_errors,      \* per request: the removal errors that were ignored
  dirs,               \* the directories that exist under WORKDIR
  files,              \* the regular files that exist under WORKDIR
  s3objs,             \* the keys stored in the bucket
  rows,               \* the rows of the bundles table
  s_in,               \* the argument of a safe_name call
  s_out,              \* its result
  s_done,             \* whether the call has returned
  s_again,            \* the result of safe_name on that result
  s_again_done        \* whether the second call has returned

locals ==
  <<bundle_id, bundle_name, original_filename, upload_path, src_for_ogr,
    geojson, mb, pmtiles_path, bounds>>

sanitizer == <<s_in, s_out, s_done, s_again, s_again_done>>

cleanup == <<rmtrees, rmtree_errors>>

vars ==
  <<pc, locals, pending, outcome, log, probe, cleanup, dirs, files, s3objs,
    rows, sanitizer>>

\* work = WORKDIR / bundle_id
work(r) == WorkPath(bundle_id[r])

\* work / f"{safe_name(bundle_name)}.pmtiles"
PmPath(r) == Join(work(r), SafeName(bundle_name[r]) \o ExtPmtiles)

\* f"sources/{bundle_id}/{original_filename}"
source_key(r) == Key("sources", bundle_id[r], original_filename[r])

\* f"pmtiles/{bundle_id}/{safe_name(bundle_name)}.pmtiles"
pmtiles_key(r) == Key("pmtiles", bundle_id[r], SafeName(bundle_name[r]) \o ExtPmtiles)

\* ext without .lower()
extCaseSensitive(r) == Suffix(PathName(upload_path[r]))

\* ext = upload_path.suffix.lower()
ext(r) == Lower(Suffix(PathName(upload_path[r])))

Goto(r, label) == pc' = [pc EXCEPT ![r] = label]

\* line 192 testing the extension of the selected dataset
IsInterchangeOfSource(r) ==
  Lower(Suffix(PathName(src_for_ogr[r]))) \in {ExtGeojson, ExtJson}

\* line 192 with ".json" left out of the tuple
IsInterchangeGeojsonOnly(r) == ext(r) = ExtGeojson

\* line 192: ext in (".geojson", ".json")
IsInterchange(r) == ext(r) \in {ExtGeojson, ExtJson}

\* An exception leaves the try block: a RuntimeError enters the except
\* clause of line 296, any other goes to the finally clause.
Raise(r, e) ==
  /\ pending' = [pending EXCEPT ![r] = e]
  /\ Goto(r, IF e.type = "RuntimeError" THEN "except" ELSE "finally")

\* subprocess.run: the invocation and what it came back with
Logged(r, cmd, res) ==
  log' = [log EXCEPT ![r] = Append(@,
            [cmd |-> cmd, rc |-> res.rc, stdout |-> res.stdout, stderr |-> res.stderr])]

InitPipeline ==
  /\ pc = [r \in Runs |-> "idle"]
  /\ bundle_id = [r \in Runs |-> ""]
  /\ bundle_name = [r \in Runs |-> <<>>]
  /\ original_filename = [r \in Runs |-> <<>>]
  /\ upload_path = [r \in Runs |-> NoPath]
  /\ src_for_ogr = [r \in Runs |-> NoPath]
  /\ geojson = [r \in Runs |-> NoPath]
  /\ mb = [r \in Runs |-> NoPath]
  /\ pmtiles_path = [r \in Runs |-> NoPath]
  /\ bounds = [r \in Runs |-> NoBounds]
  /\ pending = [r \in Runs |-> NoPending]
  /\ outcome = [r \in Runs |-> NoPending]
  /\ log = [r \in Runs |-> <<>>]
  /\ probe = [r \in Runs |-> [rc |-> 0, out |-> NoOutput]]
  /\ rmtrees = [r \in Runs |-> 0]
  /\ rmtree_errors = [r \in Runs |-> 0]
  /\ dirs = {}
  /\ files = {}
  /\ s3objs = {}
  /\ rows = {}

Init ==
  /\ InitPipeline
  /\ s_in = <<>>
  /\ s_out = <<>>
  /\ s_done = FALSE
  /\ s_again = <<>>
  /\ s_again_done = FALSE

\* ------------------------------------------------------------------------
\* create_bundle
\* ------------------------------------------------------------------------

\* Lines 255-261: the request arrives; the names are derived and the working
\* directory is made (mkdir runs before the try block, so its failure leaves
\* no directory and reaches no finally clause).
Request(r) ==
  /\ pc[r] = "idle"
  /\ \E name \in Names, filename \in Filenames,
        id \in Ids \ {bundle_id[q] : q \in Runs}, made \in BOOLEAN :
       /\ bundle_id' = [bundle_id EXCEPT ![r] = id]
       /\ bundle_name' = [bundle_name EXCEPT ![r] =
            IF Strip(name) # <<>> THEN Strip(name) ELSE Bundle]
       /\ original_filename' = [original_filename EXCEPT ![r] =
            SafeName(IF filename # <<>> THEN filename ELSE Upload)]
       /\ IF made
            THEN /\ dirs' = dirs \cup {WorkPath(id)}
                 /\ Goto(r, "write_upload")
                 /\ UNCHANGED outcome
            ELSE /\ Goto(r, "done")
                 /\ outcome' = [outcome EXCEPT ![r] = OtherError("OSError")]
                 /\ UNCHANGED dirs
  /\ UNCHANGED <<upload_path, src_for_ogr, geojson, mb, pmtiles_path, bounds,
                 pending, log, cleanup, files, s3objs, rows, probe, sanitizer>>

\* Lines 264-270: the upload is written to work / original_filename.  Opening
\* a path that names a directory raises; a write may fail after the file was
\* created.
WriteUpload(r) ==
  /\ pc[r] = "write_upload"
  /\ LET path == Join(work(r), original_filename[r])
     IN  /\ upload_path' = [upload_path EXCEPT ![r] = path]
         /\ IF IsDirectoryPath(path)
              THEN /\ Raise(r, OtherError("OSError"))
                   /\ UNCHANGED files
              ELSE /\ files' = files \cup {path}
                   /\ \E written \in BOOLEAN :
                        IF written
                          THEN Goto(r, "put_source") /\ UNCHANGED pending
                          ELSE Raise(r, OtherError("OSError"))
  /\ UNCHANGED <<bundle_id, bundle_name, original_filename, src_for_ogr,
                 geojson, mb, pmtiles_path, bounds, outcome, log, cleanup,
                 dirs, s3objs, rows, probe, sanitizer>>


\* s3_put_file with the error of the upload swallowed: the run goes on
\* whether the source was stored or not
PutSourceIgnoresFailure(r) ==
  /\ pc[r] = "put_source"
  /\ \E stored \in BOOLEAN :
       IF stored
         THEN s3objs' = s3objs \cup {source_key(r)}
         ELSE UNCHANGED s3objs
  /\ Goto(r, "ensure_pmtiles")
  /\ UNCHANGED <<locals, pending, outcome, log, cleanup, dirs, files, rows, probe, sanitizer>>

\* Lines 272-273: s3_put_file(upload_path, source_key)
PutSource(r) ==
  /\ pc[r] = "put_source"
  /\ \E stored \in BOOLEAN :
       IF stored
         THEN /\ s3objs' = s3objs \cup {source_key(r)}
              /\ Goto(r, "ensure_pmtiles")
              /\ UNCHANGED pending
         ELSE /\ Raise(r, OtherError("S3UploadFailedError"))
              /\ UNCHANGED s3objs
  /\ UNCHANGED <<locals, outcome, log, cleanup, dirs, files, rows, probe, sanitizer>>

\* Lines 164-178: ensure_pmtiles up to its first subprocess.  .pmtiles returns
\* the upload; .mbtiles goes to the single conversion; .zip makes the
\* unzipped directory; everything else goes to ogrinfo with the upload.
EnsurePmtiles(r) ==
  /\ pc[r] = "ensure_pmtiles"
  /\ IF ext(r) = ExtPmtiles
       THEN /\ pmtiles_path' = [pmtiles_path EXCEPT ![r] = upload_path[r]]
            /\ bounds' = [bounds EXCEPT ![r] = NoBounds]
            /\ Goto(r, "put_pmtiles")
            /\ UNCHANGED <<mb, src_for_ogr, dirs>>
       ELSE IF ext(r) = ExtMbtiles
       THEN /\ mb' = [mb EXCEPT ![r] = upload_path[r]]
            /\ Goto(r, "mbtiles_to_pmtiles")
            /\ UNCHANGED <<pmtiles_path, bounds, src_for_ogr, dirs>>
       ELSE /\ src_for_ogr' = [src_for_ogr EXCEPT ![r] = upload_path[r]]
            /\ IF ext(r) = ExtZip
                 THEN /\ dirs' = dirs \cup {Join(work(r), Unzipped)}
                      /\ Goto(r, "unzip")
                 ELSE /\ Goto(r, "ogrinfo")
                      /\ UNCHANGED dirs
            /\ UNCHANGED <<pmtiles_path, bounds, mb>>
  /\ UNCHANGED <<bundle_id, bundle_name, original_filename, upload_path,
                 geojson, pending, outcome, log, cleanup, files, s3objs, rows,
                 probe, sanitizer>>

\* the path of an extracted entry
Extracted(r, e) == Join(Join(work(r), Unzipped), e.name)

\* Lines 179-188: unzip, then the choice of the dataset: the first match of
\* rglob("*.shp") in an unordered walk, else the first regular file, else
\* the HTTPException of line 187.
Unzip(r) ==
  /\ pc[r] = "unzip"
  /\ \E res \in ToolResults :
       LET cmd == Cmd("unzip", <<upload_path[r], Join(work(r), Unzipped)>>, <<>>)
       IN  /\ Logged(r, cmd, res)
           /\ IF RunRaises(res)
                THEN /\ Raise(r, RunError(cmd, res))
                     /\ UNCHANGED <<files, dirs, src_for_ogr>>
                ELSE \E contents \in ZipContents :
                       LET shps == {e \in contents : MatchesShpGlob(e.name)}
                           regular == {e \in contents : e.isFile}
                       IN  /\ files' = files \cup {Extracted(r, e) : e \in regular}
                           /\ dirs' = dirs \cup {Extracted(r, e) : e \in contents \ regular}
                           /\ IF shps # {}
                                THEN \E shp \in shps :
                                       /\ src_for_ogr' = [src_for_ogr EXCEPT ![r] = Extracted(r, shp)]
                                       /\ Goto(r, "ogrinfo")
                                       /\ UNCHANGED pending
                                ELSE IF regular = {}
                                  THEN /\ Raise(r, EmptyZipError)
                                       /\ UNCHANGED src_for_ogr
                                  ELSE \E any_file \in regular :
                                         /\ src_for_ogr' = [src_for_ogr EXCEPT ![r] = Extracted(r, any_file)]
                                         /\ Goto(r, "ogrinfo")
                                         /\ UNCHANGED pending
  /\ UNCHANGED <<bundle_id, bundle_name, original_filename, upload_path,
                 geojson, mb, pmtiles_path, bounds, outcome, cleanup, s3objs,
                 rows, probe, sanitizer>>

\* ogrinfo_bounds given the upload instead of the selected dataset
ProbeTargetUpload(r) == upload_path[r]

\* line 190: the argument of ogrinfo_bounds
ProbeTarget(r) == src_for_ogr[r]

\* Lines 190-195: bounds = ogrinfo_bounds(src_for_ogr), then the choice of the
\* tippecanoe input by the extension of the upload.
Ogrinfo(r) ==
  /\ pc[r] = "ogrinfo"
  /\ \E res \in ToolResults, out \in OgrinfoOutputs :
       LET cmd == Cmd("ogrinfo", <<ProbeTarget(r)>>, <<>>)
           b == ogrinfo_bounds(res, IF res.rc = 0 THEN out ELSE NoOutput)
       IN  /\ res.rc # 0 => out = NoOutput
           /\ Logged(r, cmd, res)
           /\ probe' = [probe EXCEPT ![r] = [rc |-> res.rc, out |-> out]]
           /\ IF b.exc # ""
                THEN /\ Raise(r, IF b.exc = "RuntimeError"
                                   THEN RunError(cmd, res) ELSE OtherError(b.exc))
                     /\ UNCHANGED <<bounds, geojson>>
                ELSE /\ bounds' = [bounds EXCEPT ![r] = b.value]
                     /\ IF IsInterchange(r)
                          THEN /\ geojson' = [geojson EXCEPT ![r] = upload_path[r]]
                               /\ Goto(r, "tippecanoe")
                          ELSE /\ Goto(r, "convert_to_geojson")
                               /\ UNCHANGED geojson
                     /\ UNCHANGED pending
  /\ UNCHANGED <<bundle_id, bundle_name, original_filename, upload_path,
                 src_for_ogr, mb, pmtiles_path, outcome, cleanup, dirs, files,
                 s3objs, rows, sanitizer>>

\* Lines 195-196 and 128-135: convert_to_geojson(src_for_ogr, converted.geojson)
ConvertToGeojson(r) ==
  /\ pc[r] = "convert_to_geojson"
  /\ \E res \in ToolResults :
       LET dst == Join(work(r), ConvertedGeojson)
           cmd == Cmd("ogr2ogr", <<dst, src_for_ogr[r]>>, <<>>)
       IN  /\ Logged(r, cmd, res)
           /\ IF RunRaises(res)
                THEN /\ Raise(r, RunError(cmd, res))
                     /\ UNCHANGED <<geojson, files>>
                ELSE /\ geojson' = [geojson EXCEPT ![r] = dst]
                     /\ files' = files \cup {dst}
                     /\ Goto(r, "tippecanoe")
                     /\ UNCHANGED pending
  /\ UNCHANGED <<bundle_id, bundle_name, original_filename, upload_path,
                 src_for_ogr, mb, pmtiles_path, bounds, outcome, cleanup, dirs,
                 s3objs, rows, probe, sanitizer>>

\* Lines 198-200 and 138-147: tippecanoe_to_mbtiles(geojson, out.mbtiles, layer)
Tippecanoe(r) ==
  /\ pc[r] = "tippecanoe"
  /\ \E res \in ToolResults :
       LET dst == Join(work(r), OutMbtiles)
           cmd == Cmd("tippecanoe", <<dst, geojson[r]>>, SafeName(bundle_name[r]))
       IN  /\ Logged(r, cmd, res)
           /\ IF RunRaises(res)
                THEN /\ Raise(r, RunError(cmd, res))
                     /\ UNCHANGED <<mb, files>>
                ELSE /\ mb' = [mb EXCEPT ![r] = dst]
                     /\ files' = files \cup {dst}
                     /\ Goto(r, "mbtiles_to_pmtiles")
                     /\ UNCHANGED pending
  /\ UNCHANGED <<bundle_id, bundle_name, original_filename, upload_path,
                 src_for_ogr, geojson, pmtiles_path, bounds, outcome, cleanup,
                 dirs, s3objs, rows, probe, sanitizer>>

\* Lines 171-173 and 199-202 with 150-151: mbtiles_to_pmtiles(mb, pm), then
\* the return of ensure_pmtiles
MbtilesToPmtiles(r) ==
  /\ pc[r] = "mbtiles_to_pmtiles"
  /\ \E res \in ToolResults :
       LET cmd == Cmd("pmtiles", <<mb[r], PmPath(r)>>, <<>>)
       IN  /\ Logged(r, cmd, res)
           /\ IF RunRaises(res)
                THEN /\ Raise(r, RunError(cmd, res))
                     /\ UNCHANGED <<pmtiles_path, files>>
                ELSE /\ pmtiles_path' = [pmtiles_path EXCEPT ![r] = PmPath(r)]
                     /\ files' = files \cup {PmPath(r)}
                     /\ Goto(r, "put_pmtiles")
                     /\ UNCHANGED pending
  /\ UNCHANGED <<bundle_id, bundle_name, original_filename, upload_path,
                 src_for_ogr, geojson, mb, bounds, outcome, cleanup, dirs,
                 s3objs, rows, probe, sanitizer>>


\* the removal of the working directory placed before the upload of the
\* archive instead of in the finally block
PutPmtilesAfterRmtree(r) ==
  /\ pc[r] = "put_pmtiles"
  /\ rmtrees' = [rmtrees EXCEPT ![r] = @ + 1]
  /\ dirs' = {p \in dirs : p.id # bundle_id[r]}
  /\ files' = {p \in files : p.id # bundle_id[r]}
  /\ \E stored \in BOOLEAN :
       IF stored
         THEN /\ s3objs' = s3objs \cup {pmtiles_key(r)}
              /\ Goto(r, "insert")
              /\ UNCHANGED pending
         ELSE /\ Raise(r, OtherError("S3UploadFailedError"))
              /\ UNCHANGED s3objs
  /\ UNCHANGED <<locals, outcome, log, rmtree_errors, rows, probe, sanitizer>>

\* Lines 277-278: s3_put_file(pmtiles_path, pmtiles_key); the upload of a
\* file that does not exist fails
PutPmtiles(r) ==
  /\ pc[r] = "put_pmtiles"
  /\ \E stored \in BOOLEAN :
       IF stored /\ pmtiles_path[r] \in files
         THEN /\ s3objs' = s3objs \cup {pmtiles_key(r)}
              /\ Goto(r, "insert")
              /\ UNCHANGED pending
         ELSE /\ Raise(r, OtherError("S3UploadFailedError"))
              /\ UNCHANGED s3objs
  /\ UNCHANGED <<locals, outcome, log, cleanup, dirs, files, rows, probe, sanitizer>>

\* the JSON body of lines 286-294; it has the columns of the row of line 283
Body(r) ==
  [id |-> bundle_id[r], name |-> bundle_name[r], bounds |-> bounds[r],
   source_key |-> source_key(r), pmtiles_key |-> pmtiles_key(r)]

\* Lines 280-294: the INSERT, committed on leaving the with block, and the
\* return of the JSONResponse
InsertBundle(r) ==
  /\ pc[r] = "insert"
  /\ \E inserted \in BOOLEAN :
       IF inserted
         THEN /\ rows' = rows \cup {Body(r)}
              /\ pending' = [pending EXCEPT ![r] = Returned(Body(r))]
              /\ Goto(r, "finally")
         ELSE /\ Raise(r, OtherError("sqlite3.Error"))
              /\ UNCHANGED rows
  /\ UNCHANGED <<locals, outcome, log, cleanup, dirs, files, s3objs, probe, sanitizer>>

\* the except clause re-raising with status 500
ExceptAs500(r) ==
  /\ pc[r] = "except"
  /\ pending' = [pending EXCEPT ![r] = Raised("HTTPException", 500, @.detail)]
  /\ Goto(r, "finally")
  /\ UNCHANGED <<locals, outcome, log, cleanup, dirs, files, s3objs, rows, probe, sanitizer>>

\* a handler that never returns
ExceptBlocks(r) == pc[r] = "except" /\ FALSE /\ UNCHANGED vars

\* Lines 296-297: except RuntimeError as e: raise HTTPException(400, str(e))
ExceptRuntimeError(r) ==
  /\ pc[r] = "except"
  /\ pending' = [pending EXCEPT ![r] = Raised("HTTPException", 400, @.detail)]
  /\ Goto(r, "finally")
  /\ UNCHANGED <<locals, outcome, log, cleanup, dirs, files, s3objs, rows, probe, sanitizer>>

\* rmtree given WORKDIR instead of work: every path goes
UnderWorkdir(r, paths) == paths

\* the paths at or below the working directory of r
Under(r, paths) == {p \in paths : p.id = bundle_id[r]}

\* the removal placed at the end of the try block: skipped when an exception
\* is in flight
FinallyOnlyOnReturn(r) ==
  /\ pc[r] = "finally"
  /\ IF pending[r].kind = "return"
       THEN /\ rmtrees' = [rmtrees EXCEPT ![r] = @ + 1]
            /\ dirs' = dirs \ Under(r, dirs)
            /\ files' = files \ Under(r, files)
       ELSE UNCHANGED <<rmtrees, dirs, files>>
  /\ outcome' = [outcome EXCEPT ![r] = pending[r]]
  /\ Goto(r, "done")
  /\ UNCHANGED <<locals, pending, log, s3objs, rows, probe, rmtree_errors, sanitizer>>

\* shutil.rmtree(work) without ignore_errors: a removal that fails raises
\* out of the finally block and replaces what was in flight
FinallyRaisesOnError(r) ==
  /\ pc[r] = "finally"
  /\ rmtrees' = [rmtrees EXCEPT ![r] = @ + 1]
  /\ \E removed \in BOOLEAN :
       IF removed
         THEN /\ dirs' = dirs \ Under(r, dirs)
              /\ files' = files \ Under(r, files)
              /\ outcome' = [outcome EXCEPT ![r] = pending[r]]
              /\ UNCHANGED rmtree_errors
         ELSE /\ rmtree_errors' = [rmtree_errors EXCEPT ![r] = @ + 1]
              /\ outcome' = [outcome EXCEPT ![r] = OtherError("OSError")]
              /\ UNCHANGED <<dirs, files>>
  /\ Goto(r, "done")
  /\ UNCHANGED <<locals, pending, log, s3objs, rows, probe, sanitizer>>

\* Lines 298-299: shutil.rmtree(work, ignore_errors=True), after which the
\* response or the exception reaches the caller.  A removal that fails is
\* ignored and leaves the tree in place.
Finally(r) ==
  /\ pc[r] = "finally"
  /\ rmtrees' = [rmtrees EXCEPT ![r] = @ + 1]
  /\ \E removed \in BOOLEAN :
       IF removed
         THEN /\ dirs' = dirs \ Under(r, dirs)
              /\ files' = files \ Under(r, files)
              /\ UNCHANGED rmtree_errors
         ELSE /\ rmtree_errors' = [rmtree_errors EXCEPT ![r] = @ + 1]
              /\ UNCHANGED <<dirs, files>>
  /\ outcome' = [outcome EXCEPT ![r] = pending[r]]
  /\ Goto(r, "done")
  /\ UNCHANGED <<locals, pending, log, s3objs, rows, probe, sanitizer>>

\* the requests of the sequential specification
MainRuns == {1}

Next ==
  \/ \E r \in MainRuns : Request(r)
  \/ \E r \in MainRuns : WriteUpload(r)
  \/ \E r \in MainRuns : PutSource(r)
  \/ \E r \in MainRuns : EnsurePmtiles(r)
  \/ \E r \in MainRuns : Unzip(r)
  \/ \E r \in MainRuns : Ogrinfo(r)
  \/ \E r \in MainRuns : ConvertToGeojson(r)
  \/ \E r \in MainRuns : Tippecanoe(r)
  \/ \E r \in MainRuns : MbtilesToPmtiles(r)
  \/ \E r \in MainRuns : PutPmtiles(r)
  \/ \E r \in MainRuns : InsertBundle(r)
  \/ \E r \in MainRuns : ExceptRuntimeError(r)
  \/ \E r \in MainRuns : Finally(r)

Spec == Init /\ [][Next]_vars

\* The steps of request r after it has arrived: each is a call made by the
\* single thread that serves r, taken when that call returns.
RunStep(r) ==
  \/ WriteUpload(r)
  \/ PutSource(r)
  \/ EnsurePmtiles(r)
  \/ Unzip(r)
  \/ Ogrinfo(r)
  \/ ConvertToGeojson(r)
  \/ Tippecanoe(r)
  \/ MbtilesToPmtiles(r)
  \/ PutPmtiles(r)
  \/ InsertBundle(r)
  \/ ExceptRuntimeError(r)
  \/ Finally(r)

\* Every call a request makes returns: a request that can take a step
\* eventually takes one.  No request is required to arrive.
SpecLive == Spec /\ \A r \in MainRuns : WF_vars(RunStep(r))

\* ------------------------------------------------------------------------
\* Two requests at once
\* ------------------------------------------------------------------------

\* The inputs and environment answers of the two-request specification: a
\* pass-through, a shapefile, an archive and the parent-directory name as
\* uploads; an archive that is empty or holds a.shp and e.txt; tool failures
\* with one pair of streams; ogrinfo output that is unusable or has an extent.
ConcurrentFilenames ==
  { <<"a",".","p","m","t","i","l","e","s">>,
    <<"a",".","s","h","p">>,
    <<"a",".","z","i","p">>,
    <<".",".">> }

ConcurrentEntries == { <<"a",".","s","h","p">>, <<"e",".","t","x","t">> }

ConcurrentInputs ==
  \A r \in Runs :
    /\ original_filename[r] \in ConcurrentFilenames \cup {<<>>}
    /\ bundle_name[r] \in {<<>>, <<"n">>}
    /\ \A i \in 1..Len(log[r]) : log[r][i].stdout = "" /\ log[r][i].stderr \in {"", "err1"}
    /\ probe[r].out \in {NoOutput, [parses |-> TRUE, json |-> JDict(<< <<"extent", Extent1234>> >>)]}
    /\ \A p \in files \cup dirs :
         Len(p.rel) = 2 /\ p.rel[1] = Unzipped => p.rel[2] \in ConcurrentEntries

\* a step of either request, in any order, with the inputs above
NextConcurrent ==
  \/ \E r \in Runs : Request(r) /\ ConcurrentInputs'
  \/ \E r \in Runs : WriteUpload(r) /\ ConcurrentInputs'
  \/ \E r \in Runs : PutSource(r) /\ ConcurrentInputs'
  \/ \E r \in Runs : EnsurePmtiles(r) /\ ConcurrentInputs'
  \/ \E r \in Runs : Unzip(r) /\ ConcurrentInputs'
  \/ \E r \in Runs : Ogrinfo(r) /\ ConcurrentInputs'
  \/ \E r \in Runs : ConvertToGeojson(r) /\ ConcurrentInputs'
  \/ \E r \in Runs : Tippecanoe(r) /\ ConcurrentInputs'
  \/ \E r \in Runs : MbtilesToPmtiles(r) /\ ConcurrentInputs'
  \/ \E r \in Runs : PutPmtiles(r) /\ ConcurrentInputs'
  \/ \E r \in Runs : InsertBundle(r) /\ ConcurrentInputs'
  \/ \E r \in Runs : ExceptRuntimeError(r) /\ ConcurrentInputs'
  \/ \E r \in Runs : Finally(r) /\ ConcurrentInputs'

SpecConcurrent == Init /\ [][NextConcurrent]_vars

\* ------------------------------------------------------------------------
\* safe_name as a function of one string
\* ------------------------------------------------------------------------

\* c repeated k times
Rep(c, k) == [i \in 1..k |-> c]

\* heads and tails of the strings given to safe_name
SafePieces ==
  { <<>>, <<" ">>, <<"\t", " ">>, <<"/">>, <<"a", " ", "\n", "b">>,
    <<".", ".">>, <<"-", "_">>, <<"Z", "9">>, <<"#", " ">> }

\* the character of the repeated middle part, and its lengths: short ones and
\* ones around the truncation length
RepChars == {"a", " ", "/", "."}
RepLens == (0..MaxShort) \cup ((NameMax - 1)..(NameMax + MaxOver))

SafeInputs ==
  {p \o Rep(c, k) \o q : p \in SafePieces, q \in SafePieces, c \in RepChars, k \in RepLens}

InitSafeName ==
  /\ InitPipeline
  /\ s_in \in SafeInputs
  /\ s_out = <<>>
  /\ s_done = FALSE
  /\ s_again = <<>>
  /\ s_again_done = FALSE

\* s_out = safe_name(s_in)
CallSafeName ==
  /\ ~s_done
  /\ s_out' = SafeName(s_in)
  /\ s_done' = TRUE
  /\ UNCHANGED <<pc, locals, pending, outcome, log, probe, cleanup, dirs,
                 files, s3objs, rows, s_in, s_again, s_again_done>>

\* s_again = safe_name(s_out)
CallSafeNameAgain ==
  /\ s_done
  /\ ~s_again_done
  /\ s_again' = SafeName(s_out)
  /\ s_again_done' = TRUE
  /\ UNCHANGED <<pc, locals, pending, outcome, log, probe, cleanup, dirs,
                 files, s3objs, rows, s_in, s_out, s_done>>

NextSafeName == CallSafeName \/ CallSafeNameAgain

SpecSafeName == InitSafeName /\ [][NextSafeName]_vars

\* ------------------------------------------------------------------------
\* Properties
\* ------------------------------------------------------------------------

\* the extension of the uploaded file's name, lower-cased
UploadExt(r) == Lower(Suffix(original_filename[r]))

\* the tools that are conversion stages
ConversionTools == {"ogr2ogr", "tippecanoe", "pmtiles"}

\* the conversion stages request r has invoked, in order
Stages(r) == SelectSeq(log[r], LAMBDA e : e.cmd.tool \in ConversionTools)

\* ensure_pmtiles has returned to create_bundle
EnsureReturned(r) == pmtiles_path[r] # NoPath

\* the working directory of r was made
WorkMade(r) == upload_path[r] # NoPath

ExpectedStages(e) ==
  CASE e = ExtPmtiles -> <<>>
    [] e = ExtMbtiles -> <<"pmtiles">>
    [] e \in {ExtGeojson, ExtJson} -> <<"tippecanoe", "pmtiles">>
    [] OTHER -> <<"ogr2ogr", "tippecanoe", "pmtiles">>

AllThree == <<"ogr2ogr", "tippecanoe", "pmtiles">>

\* st is exp up to where the run has got, every stage but the last run has
\* exited with 0, and once ensure_pmtiles returned all of exp ran and exited 0
FollowsRoute(r, exp) ==
  LET st == Stages(r)
  IN  /\ Len(st) <= Len(exp)
      /\ \A i \in 1..Len(st) : st[i].cmd.tool = exp[i]
      /\ \A i \in 1..(Len(st) - 1) : st[i].rc = 0
      /\ EnsureReturned(r) => Len(st) = Len(exp) /\ \A i \in 1..Len(st) : st[i].rc = 0

\* C1: for an upload that is not a .zip, the conversion stages that run are
\* those of the lower-cased extension of the file name (.pmtiles none,
\* .mbtiles the archive stage, .geojson/.json tile database then archive,
\* anything else all three), in that order, each after its predecessor exited 0.
C1_RouteByExtension ==
  \A r \in Runs :
    WorkMade(r) /\ UploadExt(r) # ExtZip => FollowsRoute(r, ExpectedStages(UploadExt(r)))

\* a .JSON upload went through tile database and archive, and nothing else
C1_Witness ==
  \E r \in Runs :
    /\ original_filename[r] = <<"a", ".", "J", "S", "O", "N">>
    /\ EnsureReturned(r)
    /\ Len(Stages(r)) = 2

\* C2: a conversion stage or the unzip step that exits non-zero is the last
\* subprocess of its run: nothing is invoked after it, it is not run again,
\* and the run is on its way out without an archive.
C2_AbortOnFailure ==
  \A r \in Runs : \A i \in 1..Len(log[r]) :
    log[r][i].rc # 0 /\ log[r][i].cmd.tool # "ogrinfo" =>
      /\ i = Len(log[r])
      /\ pc[r] \in {"except", "finally", "done"}
      /\ ~EnsureReturned(r)

\* stage 2 of 3 failed and the run is over with stage 3 never invoked
C2_Witness ==
  \E r \in Runs :
    /\ pc[r] = "done"
    /\ Len(Stages(r)) = 2
    /\ Stages(r)[1].cmd.tool = "ogr2ogr"
    /\ Stages(r)[2].cmd.tool = "tippecanoe"
    /\ Stages(r)[2].rc # 0

\* C3 as stated: a run that made a working directory has removed it exactly
\* once when the outcome is delivered, and the directory does not exist then.
C3_AlwaysRemoved ==
  \A r \in Runs :
    pc[r] = "done" /\ WorkMade(r) => rmtrees[r] = 1 /\ work(r) \notin dirs

\* C3 amended: a run that made a working directory calls rmtree on it exactly
\* once, on every exit path and not before the outcome is ready; when the
\* outcome is delivered nothing of the directory is left unless that removal
\* itself failed (the error is ignored).
C3_RemovalAttemptedOnce ==
  \A r \in Runs :
    /\ pc[r] # "done" => rmtrees[r] = 0
    /\ pc[r] = "done" /\ WorkMade(r) =>
         /\ rmtrees[r] = 1
         /\ rmtree_errors[r] = 0 => Under(r, dirs) = {} /\ Under(r, files) = {}

\* an unexpected failure (the archive upload) was delivered and the directory is gone
C3_Witness ==
  \E r \in Runs :
    /\ pc[r] = "done"
    /\ outcome[r].type = "S3UploadFailedError"
    /\ EnsureReturned(r)
    /\ rmtrees[r] = 1
    /\ work(r) \notin dirs

\* the subprocess invocations of r that ran ogrinfo
ProbeCalls(r) == {i \in 1..Len(log[r]) : log[r][i].cmd.tool = "ogrinfo"}

\* the nodes of a report: the node itself and the nodes of its values
RECURSIVE SubNodes(_)
SubNodes(node) ==
  {node} \cup
    IF node.t = "list"
      THEN UNION {SubNodes(node.items[i]) : i \in 1..Len(node.items)}
    ELSE IF node.t = "dict"
      THEN UNION {SubNodes(node.items[i][2]) : i \in 1..Len(node.items)}
    ELSE {}

\* some object of the report has a key "extent" whose value is a list of 4
HasFourExtent(j) ==
  \E d \in SubNodes(j) :
    /\ d.t = "dict"
    /\ \E i \in 1..Len(d.items) :
         /\ d.items[i][1] = "extent"
         /\ d.items[i][2].t = "list"
         /\ Len(d.items[i][2].items) = 4

\* what ogrinfo gave r cannot yield bounds
ProbeUnusable(r) ==
  \/ probe[r].rc # 0
  \/ ~probe[r].out.parses
  \/ ~HasFourExtent(probe[r].out.json)
  \/ \E i \in 1..4 : ~FloatOk(find_extent(probe[r].out.json).items[i])

\* C4: ogrinfo_bounds never raises: right after ogrinfo no exception is in
\* flight and the run is at the conversion stage its extension calls for;
\* a non-zero exit, unparsable output, a report without a 4-element extent
\* or with an element float() rejects gives absent bounds.
C4_ProberNeverRaises ==
  \A r \in Runs :
    ProbeCalls(r) # {} =>
      /\ Len(log[r]) \in ProbeCalls(r) =>
           /\ pending[r] = NoPending
           /\ pc[r] = IF UploadExt(r) \in {ExtGeojson, ExtJson}
                        THEN "tippecanoe" ELSE "convert_to_geojson"
      /\ ProbeUnusable(r) => bounds[r] = NoBounds

\* ogrinfo exited non-zero and all three stages still ran to the end
C4_Witness ==
  \E r \in Runs :
    /\ ProbeCalls(r) # {}
    /\ probe[r].rc # 0
    /\ EnsureReturned(r)
    /\ Len(Stages(r)) = 3
    /\ bounds[r] = NoBounds

\* C5: an upload whose extension is .pmtiles in any letter case runs no
\* subprocess at all, gets no bounds, and the path returned is the upload.
C5_PassThrough ==
  \A r \in Runs :
    WorkMade(r) /\ UploadExt(r) = ExtPmtiles =>
      /\ log[r] = <<>>
      /\ bounds[r] = NoBounds
      /\ pc[r] \notin {"unzip", "ogrinfo", "convert_to_geojson", "tippecanoe",
                       "mbtiles_to_pmtiles", "except"}
      /\ pc[r] \in {"put_pmtiles", "insert"} => pmtiles_path[r] = upload_path[r]
      /\ pending[r].kind = "return" =>
           pmtiles_path[r] = upload_path[r] /\ pending[r].body.bounds = NoBounds

\* a.PMTiles was passed through and uploaded as the archive
C5_Witness ==
  \E r \in Runs :
    /\ original_filename[r] = <<"a", ".", "P", "M", "T", "i", "l", "e", "s">>
    /\ pc[r] = "insert"
    /\ pmtiles_path[r] = upload_path[r]
    /\ log[r] = <<>>

\* the upload of r is a .zip and a member of it has been selected
ZipSelected(r) ==
  WorkMade(r) /\ UploadExt(r) = ExtZip /\ Len(src_for_ogr[r].rel) = 2

\* the lower-cased extension of the selected member
MemberExt(r) == Lower(Suffix(PathName(src_for_ogr[r])))

Unpacked(r) ==
  /\ pc[r] \notin {"unzip", "done"}
  /\ Len(log[r]) >= 1
  /\ log[r][1].cmd.tool = "unzip"
  /\ log[r][1].rc = 0

\* C7: a .zip whose extracted contents hold no regular file fails with the
\* empty-container error before ogrinfo or any stage is invoked.
C7_EmptyContainerRejected ==
  \A r \in Runs :
    Unpacked(r) /\ Under(r, files) \subseteq {upload_path[r]} =>
      pending[r] = EmptyZipError /\ Len(log[r]) = 1

\* C8: a run that ended because a conversion tool or unzip exited non-zero is
\* delivered as HTTP 400 with the command and both streams in the message; a
\* run that ended on the empty container is delivered as HTTP 400.
C8_InputErrorIs400 ==
  \A r \in Runs :
    pc[r] = "done" /\ Len(log[r]) > 0 =>
      LET last == log[r][Len(log[r])]
      IN  /\ last.rc # 0 /\ last.cmd.tool # "ogrinfo" =>
               /\ outcome[r].kind = "raise"
               /\ outcome[r].status = 400
               /\ outcome[r].detail.cmd = last.cmd
               /\ outcome[r].detail.stdout = last.stdout
               /\ outcome[r].detail.stderr = last.stderr
          /\ Len(log[r]) = 1 /\ last.cmd.tool = "unzip" /\ last.rc = 0 =>
               /\ outcome[r].kind = "raise"
               /\ outcome[r].status = 400
               /\ outcome[r].detail.text = "Zip was empty or contained no files."

\* tippecanoe failed and the caller got 400 with its command and streams
C8_Witness ==
  \E r \in Runs :
    /\ pc[r] = "done"
    /\ outcome[r].status = 400
    /\ outcome[r].detail.cmd.tool = "tippecanoe"
    /\ outcome[r].detail.stdout = "out"
    /\ outcome[r].detail.stderr = "err2"

\* C9: after a run aborted by an input error (HTTP 400) nothing of it is
\* kept: no working directory, no catalog row, no object in storage.
C9_NoPartialOutput ==
  \A r \in Runs :
    pc[r] = "done" /\ outcome[r].status = 400 =>
      /\ Under(r, dirs) = {}
      /\ Under(r, files) = {}
      /\ \A row \in rows : row.id # bundle_id[r]
      /\ \A k \in s3objs : k.id # bundle_id[r]

\* every character of s is outside the class, and no whitespace of s lies
\* between two other characters: strip, the two substitutions leave nothing
LeavesNothing(s) ==
  \A i \in 1..Len(s) :
    /\ s[i] \notin AllowedChars
    /\ s[i] \in Whitespace =>
         \/ \A j \in 1..i : s[j] \in Whitespace
         \/ \A j \in i..Len(s) : s[j] \in Whitespace

\* C10: safe_name(x) has 1 to 120 characters, all of them letters, digits,
\* ".", "_" or "-", and is "bundle" when nothing of x is left.
C10_SafeNameShape ==
  s_done =>
    /\ Len(s_out) \in 1..NameMax
    /\ \A i \in 1..Len(s_out) : s_out[i] \in AllowedChars
    /\ LeavesNothing(s_in) => s_out = Bundle

\* an input of more than 120 kept characters came back cut to 120
C10_Witness ==
  /\ s_done
  /\ Len(s_in) > NameMax
  /\ \A i \in 1..Len(s_in) : s_in[i] \in AllowedChars
  /\ Len(s_out) = NameMax

\* C11: safe_name is idempotent: applied to its own result it returns that
\* result, for long inputs and for inputs that give "bundle" as well.
C11_SafeNameIdempotent == s_again_done => s_again = s_out

\* an input of more than 120 kept characters was cut, and the cut string
\* came back unchanged from the second call
C11_Witness ==
  /\ s_again_done
  /\ Len(SubDisallowed(s_in)) > NameMax
  /\ s_out # s_in
  /\ s_again = s_out

\* the working directory a path lies in: that of its bundle id, unless a ".."
\* component takes it out of there
Owner(p) ==
  IF \E i \in 1..Len(p.rel) : p.rel[i] = <<".", ".">> THEN "outside" ELSE p.id

\* the paths request r has handed to a subprocess or to the storage client
PathsUsed(r) ==
  UNION {{log[r][i].cmd.paths[k] : k \in 1..Len(log[r][i].cmd.paths)} : i \in 1..Len(log[r])}
    \cup ({src_for_ogr[r], geojson[r], mb[r], pmtiles_path[r]} \ {NoPath})

\* the requests have different working directories and use paths of their own only
OwnPathsOnly ==
  \A r \in Runs :
    /\ \A q \in Runs \ {r} : bundle_id[r] # "" => bundle_id[q] # bundle_id[r]
    /\ \A p \in PathsUsed(r) : Owner(p) = bundle_id[r]

\* a step of request r creates and removes files and directories of r only
OwnChangesOnly ==
  \A r \in Runs :
    pc'[r] # pc[r] =>
      \A p \in (files' \ files) \cup (files \ files') \cup (dirs' \ dirs) \cup (dirs \ dirs') :
        Owner(p) = bundle_id'[r]

\* C12: in any interleaving of two requests the working directories differ,
\* every path a request reads or writes lies in its own working directory,
\* and a step of one request, its cleanup included, leaves the files of the
\* other as they are.
C12_RunsIsolated == []OwnPathsOnly /\ [][OwnChangesOnly]_vars

\* one request has removed its directory while the archive of the other,
\* still to be uploaded, is on disk
C12_Witness ==
  \E r \in Runs : \E q \in Runs \ {r} :
    /\ pc[r] = "done"
    /\ rmtrees[r] = 1
    /\ rmtree_errors[r] = 0
    /\ upload_path[r] \notin files
    /\ pc[q] = "put_pmtiles"
    /\ Len(log[q]) > 0
    /\ pmtiles_path[q] \in files

\* the path is an entry of the unzipped directory of r
IsMember(r, p) == p.id = bundle_id[r] /\ Len(p.rel) = 2 /\ p.rel[1] = Unzipped

\* C13: a run that gets to ogrinfo invokes it once, after a successful unzip
\* when the upload is a .zip and as the first subprocess otherwise, before
\* every conversion stage; it is given the selected member for a .zip and
\* the upload otherwise, and for a .zip the first conversion stage reads the
\* same member.
C13_ProbeOnceOnDataset ==
  \A r \in Runs :
    /\ Cardinality(ProbeCalls(r)) <= 1
    /\ pc[r] \in {"convert_to_geojson", "tippecanoe"} => ProbeCalls(r) # {}
    /\ \A i \in ProbeCalls(r) :
         LET target == log[r][i].cmd.paths[1]
         IN  /\ \A j \in 1..Len(log[r]) :
                  /\ j < i => log[r][j].cmd.tool = "unzip" /\ log[r][j].rc = 0
                  /\ log[r][j].cmd.tool \in ConversionTools => j > i
             /\ IF UploadExt(r) = ExtZip
                  THEN /\ i = 2
                       /\ IsMember(r, target)
                       /\ target = src_for_ogr[r]
                       /\ \A j \in 1..Len(log[r]) :
                            j = i + 1 => /\ log[r][j].cmd.tool = "ogr2ogr"
                                         /\ log[r][j].cmd.paths[2] = target
                  ELSE i = 1 /\ target = upload_path[r]

\* a.zip was unpacked, ogrinfo and then ogr2ogr read the same member, and the
\* run went through all stages
C13_Witness ==
  \E r \in Runs :
    /\ UploadExt(r) = ExtZip
    /\ EnsureReturned(r)
    /\ Len(log[r]) = 5
    /\ log[r][2].cmd.tool = "ogrinfo"
    /\ log[r][3].cmd.tool = "ogr2ogr"
    /\ log[r][2].cmd.paths[1] = log[r][3].cmd.paths[2]
    /\ IsMember(r, log[r][2].cmd.paths[1])

\* the regular files extracted from the archive of r
ExtractedFiles(r) == {p \in files : IsMember(r, p)}

\* C14: the selected member is an extracted regular file: one named *.shp
\* when there is such a regular file, any regular file otherwise.
C14_SelectsRegularFile ==
  \A r \in Runs :
    ZipSelected(r) /\ pc[r] # "done" =>
      LET shps == {p \in ExtractedFiles(r) : Suffix(PathName(p)) = ExtShp}
      IN  /\ src_for_ogr[r] \in ExtractedFiles(r)
          /\ shps # {} => src_for_ogr[r] \in shps

\* Concatenation of the sequences f[1], ..., f[n]
RECURSIVE Flatten(_)
Flatten(f) == IF f = <<>> THEN <<>> ELSE Head(f) \o Flatten(Tail(f))

\* The values of the keys "extent" that are lists of 4, in depth-first
\* pre-order: an object's own key, then what its values hold in document
\* order; for an array, what its elements hold in order.
RECURSIVE QualifyingExtents(_)
QualifyingExtents(node) ==
  IF node.t = "dict"
    THEN LET own == {i \in 1..Len(node.items) :
                       /\ node.items[i][1] = "extent"
                       /\ node.items[i][2].t = "list"
                       /\ Len(node.items[i][2].items) = 4}
         IN  [i \in 1..Cardinality(own) |-> node.items[CHOOSE k \in own : TRUE][2]]
             \o Flatten([i \in 1..Len(node.items) |-> QualifyingExtents(node.items[i][2])])
  ELSE IF node.t = "list"
    THEN Flatten([i \in 1..Len(node.items) |-> QualifyingExtents(node.items[i])])
  ELSE <<>>

\* ogrinfo exited 0 for r and printed JSON
ProbeParsed(r) == ProbeCalls(r) # {} /\ probe[r].rc = 0 /\ probe[r].out.parses

\* The claim C15 as stated: whenever the report has a key "extent" holding
\* a list of 4, ogrinfo_bounds returns the first of them, as floats.
C15_FirstExtentReturned ==
  \A r \in Runs :
    ProbeParsed(r) =>
      LET q == QualifyingExtents(probe[r].out.json)
      IN  IF q = <<>> THEN bounds[r] = NoBounds
          ELSE /\ bounds[r] # NoBounds
               /\ \A i \in 1..4 :
                    FloatOk(q[1].items[i]) => bounds[r][i] = Float(q[1].items[i])

\* C15: ogrinfo_bounds returns the first "extent" that is a list of 4 in
\* depth-first pre-order (an object's own before any nested one, shorter or
\* longer ones skipped), as floats, when float() accepts its four elements;
\* it returns absent bounds when there is none or when float() rejects an
\* element of the first one.
C15_FirstExtentIfCoercible ==
  \A r \in Runs :
    ProbeParsed(r) =>
      LET q == QualifyingExtents(probe[r].out.json)
      IN  IF q = <<>> THEN bounds[r] = NoBounds
          ELSE IF \A i \in 1..4 : FloatOk(q[1].items[i])
            THEN bounds[r] = [i \in 1..4 |-> Float(q[1].items[i])]
            ELSE bounds[r] = NoBounds

\* an object's own extent was returned although a value listed before it
\* holds another one
C15_Witness ==
  \E r \in Runs :
    /\ ProbeParsed(r)
    /\ probe[r].out.json =
         JDict(<< <<"a", JDict(<< <<"extent", Extent1234>> >>)>>, <<"extent", Extent4321>> >>)
    /\ Len(QualifyingExtents(probe[r].out.json)) = 2
    /\ bounds[r] = <<4, 3, 2, 1>>

\* C16: what the caller receives is what was in flight when the finally
\* block was entered -- the response, or the exception -- whether rmtree
\* removed the tree or failed; the ignored removal error is never delivered.
C16_RemovalFailureSilent ==
  \A r \in Runs :
    pc[r] = "done" /\ rmtrees[r] > 0 =>
      /\ outcome[r] = pending[r]
      /\ outcome[r].kind = "return" <=> \E row \in rows : row.id = bundle_id[r]

\* the removal failed, the tree is still there, and the caller received the
\* 200 response
C16_Witness ==
  \E r \in Runs :
    /\ pc[r] = "done"
    /\ rmtree_errors[r] = 1
    /\ work(r) \in dirs
    /\ outcome[r].kind = "return"
    /\ outcome[r].status = 200

\* r has been accepted: create_bundle is running or has finished
Started(r) == pc[r] # "idle"

\* The claim C17 as stated: every run that starts ends with its outcome
\* delivered and its working directory gone.
C17_TerminatesDirectoryGone ==
  \A r \in Runs :
    Started(r) ~> (pc[r] = "done" /\ outcome[r] # NoPending /\ work(r) \notin dirs)

\* C17: when every call returns, every run that starts ends: the response or
\* an exception is delivered, and the working directory has been removed or
\* its removal has failed and been ignored.
C17_Terminates ==
  \A r \in Runs :
    Started(r) ~> /\ pc[r] = "done"
                  /\ outcome[r].kind \in {"return", "raise"}
                  /\ work(r) \notin dirs \/ rmtree_errors[r] = 1

\* a run went through all three conversion stages, both uploads and the
\* insert, and ended with the response delivered and the directory gone
C17_Witness ==
  \E r \in Runs :
    /\ pc[r] = "done"
    /\ Len(log[r]) = 4
    /\ outcome[r].kind = "return"
    /\ rmtrees[r] = 1
    /\ work(r) \notin dirs

\* the rows of the bundles table inserted by request r
RowsOf(r) == {row \in rows : row.id = bundle_id[r]}

\* the objects in the bucket stored under the id of request r
ObjectsOf(r) == {k \in s3objs : k.id = bundle_id[r]}

\* the conversion stages of the route of r: all three for a .zip
Route(r) == IF UploadExt(r) = ExtZip THEN AllThree ELSE ExpectedStages(UploadExt(r))

\* every row is the row of a run that stored its source, ran every stage of
\* its route with exit status 0 and stored its archive; the keys of the row
\* are those two objects; a run has at most one row
RowsComplete ==
  /\ \A row \in rows : \E r \in Runs : Started(r) /\ row.id = bundle_id[r]
  /\ \A r \in Runs :
       RowsOf(r) # {} =>
         /\ Cardinality(RowsOf(r)) = 1
         /\ pc[r] \in {"finally", "done"}
         /\ EnsureReturned(r)
         /\ FollowsRoute(r, Route(r))
         /\ Len(Stages(r)) = Len(Route(r))
         /\ \A row \in RowsOf(r) :
              /\ row.source_key = source_key(r)
              /\ row.pmtiles_key = pmtiles_key(r)
              /\ row.source_key # row.pmtiles_key
              /\ {row.source_key, row.pmtiles_key} \subseteq ObjectsOf(r)

\* the insert comes after both uploads, and once the row is there the run
\* stores nothing more and inserts nothing more
InsertIsLast ==
  \A r \in Runs :
    /\ RowsOf(r) = {} /\ RowsOf(r)' # {} =>
         /\ {source_key(r), pmtiles_key(r)} \subseteq ObjectsOf(r)
         /\ ObjectsOf(r)' = ObjectsOf(r)
    /\ RowsOf(r) # {} => RowsOf(r)' = RowsOf(r) /\ ObjectsOf(r)' = ObjectsOf(r)

\* C18: a row of the bundles table exists for a run only after its source
\* upload, every conversion stage of its route and its archive upload have
\* succeeded; the INSERT is the last thing the run persists; the row's
\* source_key and pmtiles_key are objects that run stored; a run inserts at
\* most one row.
C18_RowOnlyAfterAllStored == []RowsComplete /\ [][InsertIsLast]_vars

\* a .zip upload has its row: unzip, ogrinfo and the three stages ran, and
\* both objects are in the bucket
C18_Witness ==
  \E r \in Runs :
    /\ RowsOf(r) # {}
    /\ UploadExt(r) = ExtZip
    /\ Len(log[r]) = 5
    /\ Cardinality(ObjectsOf(r)) = 2
    /\ pc[r] = "done"

\* the archive is on disk, in the working directory of r that no rmtree has
\* touched, while r is about to upload it and while r inserts its row; a
\* response is in flight at the removal only with the archive stored and the
\* row inserted
ArchiveKept ==
  \A r \in Runs :
    /\ pc[r] \in {"put_pmtiles", "insert"} =>
         /\ rmtrees[r] = 0
         /\ work(r) \in dirs
         /\ pmtiles_path[r] \in files
         /\ pmtiles_path[r].id = bundle_id[r]
         /\ ~IsDirectoryPath(pmtiles_path[r])
    /\ rmtrees[r] > 0 /\ pending[r].kind = "return" =>
         pmtiles_key(r) \in s3objs /\ RowsOf(r) # {}

\* the step that stores the archive finds it on disk and leaves it there,
\* and the step that removes the directory of a successful run comes after
\* the upload and the insert
UploadBeforeRemoval ==
  \A r \in Runs :
    /\ pmtiles_key(r) \notin s3objs /\ pmtiles_key(r) \in s3objs' /\ pc[r] # pc'[r] =>
         pmtiles_path[r] \in files /\ pmtiles_path[r] \in files' /\ rmtrees'[r] = 0
    /\ rmtrees'[r] > rmtrees[r] /\ pending[r].kind = "return" =>
         pmtiles_key(r) \in s3objs /\ RowsOf(r) # {}

\* C19: on a successful run the file ensure_pmtiles returned is on disk when
\* it is uploaded, on every route (the upload itself for .pmtiles); the
\* working directory is removed only after the archive upload and the INSERT.
C19_ArchiveOutlivesUpload == []ArchiveKept /\ [][UploadBeforeRemoval]_vars

\* a .pmtiles upload went straight through: no tool ran, the upload itself
\* was stored as the archive, the row was inserted, and only then the
\* directory and the archive in it were removed
C19_Witness ==
  \E r \in Runs :
    /\ pc[r] = "done"
    /\ log[r] = <<>>
    /\ outcome[r].kind = "return"
    /\ pmtiles_path[r] = upload_path[r]
    /\ pmtiles_key(r) \in s3objs
    /\ RowsOf(r) # {}
    /\ rmtrees[r] = 1
    /\ pmtiles_path[r] \notin files

\* the paths the subprocesses of r were told to write: the destination of
\* ogr2ogr and of tippecanoe, the archive of pmtiles convert, the directory
\* of unzip
StageOutputs(r) ==
  {log[r][i].cmd.paths[IF log[r][i].cmd.tool \in {"ogr2ogr", "tippecanoe"} THEN 1 ELSE 2] :
     i \in {k \in 1..Len(log[r]) : log[r][k].cmd.tool # "ogrinfo"}}

\* C20: the path the upload is written to is a file directly inside the
\* working directory of the run -- not that directory, not its parent, not
\* outside -- and no subprocess of the run is told to write to it.
C20_UploadInsideOwnDirectory ==
  \A r \in Runs :
    WorkMade(r) =>
      /\ upload_path[r].id = bundle_id[r]
      /\ Len(upload_path[r].rel) = 1
      /\ Owner(upload_path[r]) = bundle_id[r]
      /\ ~IsDirectoryPath(upload_path[r])
      /\ upload_path[r] \notin StageOutputs(r)

====
